---- MODULE Spec2Model ----
(***************************************************************************)
(* organize_files.py: the extractor (extract_file_info) that splits a text *)
(* into (path, content) pairs at file-path marker lines, and the organizer *)
(* (process_file, main) that writes the pairs under a destination tree.    *)
(*                                                                         *)
(* Text is modelled at character level: a string is a sequence of          *)
(* one-character strings, so that split, strip, join and the two marker    *)
(* regular expressions are computed as the code computes them.             *)
(***************************************************************************)
EXTENDS Integers, Sequences, FiniteSets, TLC

VARIABLES
    \* ---- extract_file_info ----
    content,          \* the text handed to extract_file_info
    lines,            \* content.split('\n')
    i,                \* the 0-based line cursor
    current_file,     \* the open path, or None
    current_content,  \* the accumulator: a list of raw lines
    files_data,       \* the emitted (path, content) pairs
    epc,              \* position in extract_file_info: idle, loop, skip, done
    \* ---- process_file / main ----
    docs,             \* the documents os.walk yields, in walk order
    d,                \* 1-based index of the document being processed
    k,                \* 1-based index of the next pair process_file writes
    disk,             \* the destination tree: file location -> content
    out,              \* what this run printed, in order
    mpc,              \* position in main
    run,              \* number of the current invocation of the program
    attempts,         \* per document: calls of process_file in this run
    env,              \* what the file system refuses: creating the
                      \* destination root, writing at some locations
    history           \* the destination tree as each finished run left it

evars == <<content, lines, i, current_file, current_content, files_data, epc>>
ovars == <<docs, d, k, disk, out, mpc, run, attempts, env, history>>
vars == <<content, lines, i, current_file, current_content, files_data, epc,
          docs, d, k, disk, out, mpc, run, attempts, env, history>>

----------------------------------------------------------------------------
\* Bounds of the model.

MaxLines == 4     \* lines of a text drawn for the extractor
MaxDocLines == 3  \* lines of the document drawn for a single-document run
MaxDocs == 2      \* documents in the source directory
MaxRuns == 2      \* invocations of the program on the same directories

----------------------------------------------------------------------------
\* Characters and strings.

NL == "\n"
Whitespace == {" ", "\t", "\r", NL}
WordChars ==
    {"a","b","c","d","e","f","g","h","i","j","k","l","m","n","o","p","q","r",
     "s","t","u","v","w","x","y","z","0","1","2","3","4","5","6","7","8","9","_"}
PathChars == WordChars \cup {"/", "-"}
QuoteChars == {"'", "\""}

None == << >>     \* Python's None; like the empty string, it is falsy

\* length of the longest run of characters of cs in s from position p on
RECURSIVE runLen(_, _, _)
runLen(s, p, cs) ==
    IF p <= Len(s) /\ s[p] \in cs THEN 1 + runLen(s, p + 1, cs) ELSE 0

\* length of the longest run of characters of cs in s from position p back
RECURSIVE runLenBack(_, _, _)
runLenBack(s, p, cs) ==
    IF p >= 1 /\ s[p] \in cs THEN 1 + runLenBack(s, p - 1, cs) ELSE 0

\* str.strip(chars): the characters of chars removed at both ends
stripChars(s, chars) ==
    IF runLen(s, 1, chars) = Len(s) THEN << >>
    ELSE SubSeq(s, runLen(s, 1, chars) + 1, Len(s) - runLenBack(s, Len(s), chars))

\* str.strip()
strip(s) == stripChars(s, Whitespace)

\* str.startswith(p)
startswith(s, p) == Len(s) >= Len(p) /\ SubSeq(s, 1, Len(p)) = p

\* '\n'.join(ls)
RECURSIVE joinFrom(_, _)
joinFrom(ls, n) ==
    IF n > Len(ls) THEN << >>
    ELSE IF n = Len(ls) THEN ls[n]
    ELSE ls[n] \o <<NL>> \o joinFrom(ls, n + 1)

join(ls) == joinFrom(ls, 1)

\* s.split('\n'): never empty, the empty text gives one empty line.
\* start is where the current line begins, p the character looked at.
RECURSIVE splitFrom(_, _, _)
splitFrom(s, start, p) ==
    IF p > Len(s) THEN <<SubSeq(s, start, Len(s))>>
    ELSE IF s[p] = NL THEN <<SubSeq(s, start, p - 1)>> \o splitFrom(s, p + 1, p + 1)
    ELSE splitFrom(s, start, p + 1)

split(s) == splitFrom(s, 1, 1)

----------------------------------------------------------------------------
\* The marker patterns (file_patterns) and re.match.

ROOT_APPS == <<"a","p","p","s">>
ROOT_PACKAGES == <<"p","a","c","k","a","g","e","s">>

\* Below, "CHOOSE r \in {F(x) : x \in {e}} : TRUE" is F(e) with e evaluated
\* once and named x.

\* (?:apps|packages) at the head of rest: the length matched, or 0
rootLen(rest) ==
    IF startswith(rest, ROOT_APPS) THEN Len(ROOT_APPS)
    ELSE IF startswith(rest, ROOT_PACKAGES) THEN Len(ROOT_PACKAGES)
    ELSE 0

\* \.\w+ matched at position dot of s: the index of the last matched
\* character, or 0 when there is no match
extEnd(s, dot) ==
    CHOOSE r \in
        { IF dot <= Len(s) /\ s[dot] = "." /\ ext >= 1 THEN dot + ext ELSE 0
          : ext \in {runLen(s, dot + 1, WordChars)} } : TRUE

\* \/[\w\/-]+\.\w+ matched at position slash of s, likewise.
\* [\w\/-]+ is greedy and '.' is outside its class, so the run it takes is
\* the maximal one and backtracking cannot find another match.
pathTail(s, slash) ==
    CHOOSE r \in
        { IF slash <= Len(s) /\ s[slash] = "/" /\ body >= 1
          THEN extEnd(s, slash + 1 + body)
          ELSE 0
          : body \in {runLen(s, slash + 1, PathChars)} } : TRUE

\* (?:apps|packages)\/[\w\/-]+\.\w+ matched at position p of s, likewise
pathEnd(s, p) ==
    CHOOSE r \in
        { IF root > 0 THEN pathTail(s, p + root) ELSE 0
          : root \in {rootLen(SubSeq(s, p, Len(s)))} } : TRUE

\* (?:\/\/|#) at the head of s: the length matched, or 0
tokenLen(s) ==
    IF startswith(s, <<"/", "/">>) THEN 2
    ELSE IF startswith(s, <<"#">>) THEN 1
    ELSE 0

\* matchCommentPrefixed that returns group(0)
matchCommentPrefixedMutGroup0(s) ==
    CHOOSE r \in
        { CHOOSE r2 \in
            { IF tok > 0 /\ Len(s) > tok /\ s[tok + 1] = " " /\ end > 0
              THEN SubSeq(s, 1, end)
              ELSE None
              : end \in {pathEnd(s, tok + 2)} } : TRUE
          : tok \in {tokenLen(s)} } : TRUE

\* r'(?:\/\/|#) ((?:apps|packages)\/[\w\/-]+\.\w+)': group(1) or None
matchCommentPrefixed(s) ==
    CHOOSE r \in
        { CHOOSE r2 \in
            { IF tok > 0 /\ Len(s) > tok /\ s[tok + 1] = " " /\ end > 0
              THEN SubSeq(s, tok + 2, end)
              ELSE None
              : end \in {pathEnd(s, tok + 2)} } : TRUE
          : tok \in {tokenLen(s)} } : TRUE

\* r'^((?:apps|packages)\/[\w\/-]+\.\w+)': group(1) or None
matchBare(s) ==
    CHOOSE r \in
        { IF end > 0 THEN SubSeq(s, 1, end) ELSE None
          : end \in {pathEnd(s, 1)} } : TRUE

\* lines 31-35: the for loop over file_patterns, the first match wins
firstMatch(s) ==
    CHOOSE r \in
        { IF m # None THEN m ELSE matchBare(s)
          : m \in {matchCommentPrefixed(s)} } : TRUE

\* lines 30-35: file_path for a line; the patterns see line.strip()
matchMarker(line) == CHOOSE r \in {firstMatch(s) : s \in {strip(line)}} : TRUE

\* line 48: a line the skip loop passes over, given its strip()
skippableStripped(s) ==
    s = << >> \/ startswith(s, <<"/", "/">>) \/ startswith(s, <<"#">>)

skippable(line) == \E s \in {strip(line)} : skippableStripped(s)

\* '\n'.join(current_content).strip()
joined(cc) == CHOOSE r \in {strip(s) : s \in {join(cc)}} : TRUE

----------------------------------------------------------------------------
\* extract_file_info, one loop iteration per step.  A state of the function
\* is a record st of its locals; the actions below apply the same operators
\* to the variables.

\* lines 19-24
beginExtract(text) ==
    [content |-> text,
     lines |-> split(text),
     i |-> 0,
     current_file |-> None,
     current_content |-> << >>,
     files_data |-> << >>,
     epc |-> "loop"]

\* flushOnMarker with the content left untrimmed
flushOnMarkerMutRaw(cf, cc, fd) ==
    IF cf # None THEN Append(fd, <<cf, join(cc)>>) ELSE fd

\* flushOnMarker with the pair put in front
flushOnMarkerMutPrepend(cf, cc, fd) ==
    IF cf # None THEN <<(<<cf, joined(cc)>>)>> \o fd ELSE fd

\* lines 39-40: the pair saved when a marker is met
flushOnMarker(cf, cc, fd) ==
    IF cf # None THEN Append(fd, <<cf, joined(cc)>>) ELSE fd

\* flushAtEnd without its condition
flushAtEndMutUnguarded(cf, cc, fd) == Append(fd, <<cf, joined(cc)>>)

\* lines 57-58: the pair saved at end of input
flushAtEnd(cf, cc, fd) ==
    IF cf # None /\ cc # << >> THEN Append(fd, <<cf, joined(cc)>>) ELSE fd

\* accumulate with the line trimmed
accumulateMutStripped(cf, cc, line) ==
    IF cf # None THEN Append(cc, strip(line)) ELSE cc

\* accumulate without its condition
accumulateMutNoGuard(cf, cc, line) == Append(cc, line)

\* lines 52-53: the accumulator after a line that is no marker
accumulate(cf, cc, line) ==
    IF cf # None THEN Append(cc, line) ELSE cc

\* line 26
inLoop(st) == st.epc = "loop" /\ st.i < Len(st.lines)

\* lines 30-37: file_path of the line under the cursor
atMarker(st) == inLoop(st) /\ matchMarker(st.lines[st.i + 1]) # None

atContent(st) == inLoop(st) /\ matchMarker(st.lines[st.i + 1]) = None

\* atSkippable with the skip loop stopping at a marker line
atSkippableMutStopAtMarker(st) ==
    /\ st.epc = "skip"
    /\ st.i < Len(st.lines)
    /\ skippable(st.lines[st.i + 1])
    /\ matchMarker(st.lines[st.i + 1]) = None

\* line 48: the condition of the skip loop
atSkippable(st) ==
    st.epc = "skip" /\ st.i < Len(st.lines) /\ skippable(st.lines[st.i + 1])

\* loopMarker without the step over the marker line
loopMarkerMutNoAdvance(st) ==
    [st EXCEPT
        !.files_data = flushOnMarker(st.current_file, st.current_content, st.files_data),
        !.current_file = matchMarker(st.lines[st.i + 1]),
        !.current_content = << >>,
        !.epc = "skip"]

\* lines 37-47: the marker branch, up to the skip loop
loopMarker(st) ==
    [st EXCEPT
        !.files_data = flushOnMarker(st.current_file, st.current_content, st.files_data),
        !.current_file = matchMarker(st.lines[st.i + 1]),
        !.current_content = << >>,
        !.i = st.i + 1,
        !.epc = "skip"]

\* line 49: one iteration of the skip loop
skipLine(st) == [st EXCEPT !.i = st.i + 1]

\* line 48: the skip loop is over, back to line 26
skipEnd(st) == [st EXCEPT !.epc = "loop"]

\* loopContent that closes the open path at a blank line
loopContentMutClose(st) ==
    [st EXCEPT
        !.current_content = accumulate(st.current_file, st.current_content, st.lines[st.i + 1]),
        !.current_file = IF strip(st.lines[st.i + 1]) = << >> THEN None ELSE st.current_file,
        !.i = st.i + 1]

\* lines 50-54: the branch of a line that is no marker
loopContent(st) ==
    [st EXCEPT
        !.current_content = accumulate(st.current_file, st.current_content, st.lines[st.i + 1]),
        !.i = st.i + 1]

\* lines 56-60: after the loop
extractReturn(st) ==
    [st EXCEPT
        !.files_data = flushAtEnd(st.current_file, st.current_content, st.files_data),
        !.epc = "done"]

\* the next step of a call that has not returned
extractStep(st) ==
    IF atMarker(st) THEN loopMarker(st)
    ELSE IF atContent(st) THEN loopContent(st)
    ELSE IF atSkippable(st) THEN skipLine(st)
    ELSE IF st.epc = "skip" THEN skipEnd(st)
    ELSE extractReturn(st)

\* the call run to its return
RECURSIVE runExtract(_)
runExtract(st) ==
    IF st.epc = "done" THEN st.files_data ELSE runExtract(extractStep(st))

\* lines 9-60
extract_file_info(text) == runExtract(beginExtract(text))

\* the locals of the call in progress
cur ==
    [content |-> content, lines |-> lines, i |-> i, current_file |-> current_file,
     current_content |-> current_content, files_data |-> files_data, epc |-> epc]

become(st) ==
    /\ content' = st.content
    /\ lines' = st.lines
    /\ i' = st.i
    /\ current_file' = st.current_file
    /\ current_content' = st.current_content
    /\ files_data' = st.files_data
    /\ epc' = st.epc

LoopMarker ==
    /\ \E st \in {cur} : atMarker(st) /\ \E st2 \in {loopMarker(st)} : become(st2)
    /\ UNCHANGED ovars

SkipLine ==
    /\ \E st \in {cur} : atSkippable(st) /\ \E st2 \in {skipLine(st)} : become(st2)
    /\ UNCHANGED ovars

SkipEnd ==
    /\ epc = "skip"
    /\ \E st \in {cur} : ~atSkippable(st) /\ \E st2 \in {skipEnd(st)} : become(st2)
    /\ UNCHANGED ovars

LoopContent ==
    /\ \E st \in {cur} : atContent(st) /\ \E st2 \in {loopContent(st)} : become(st2)
    /\ UNCHANGED ovars

ExtractReturn ==
    /\ epc = "loop"
    /\ \E st \in {cur} : ~inLoop(st) /\ \E st2 \in {extractReturn(st)} : become(st2)
    /\ UNCHANGED ovars

----------------------------------------------------------------------------
\* Texts for the extractor: every sequence of at most MaxLines lines of
\* LineSet, joined by newlines.

PATH_A == ROOT_APPS \o <<"/", "a", ".", "t">>
PATH_B == ROOT_PACKAGES \o <<"/", "b", ".", "c">>

LineSet ==
    { <<"/", "/", " ">> \o PATH_A,        \* // apps/a.t
      <<"#", " ">> \o PATH_B,             \* # packages/b.c
      PATH_A,                             \* apps/a.t
      PATH_B,                             \* packages/b.c
      <<" ">> \o PATH_A \o <<" ", "z">>,  \* a bare marker, indented, with a tail
      <<" ", "y", " ">>,                  \* content, padded
      << >>,                              \* blank
      <<" ", "#", "n">> }                 \* a comment that is no marker

RECURSIVE SeqsUpTo(_, _)
SeqsUpTo(S, n) ==
    IF n = 0 THEN {<< >>}
    ELSE LET shorter == SeqsUpTo(S, n - 1)
         IN  shorter \cup {Append(s, x) : s \in {t \in shorter : Len(t) = n - 1}, x \in S}

startsAs(st) ==
    /\ content = st.content
    /\ lines = st.lines
    /\ i = st.i
    /\ current_file = st.current_file
    /\ current_content = st.current_content
    /\ files_data = st.files_data
    /\ epc = st.epc

NoEnv == [destOk |-> TRUE, unwritable |-> {}]

\* one call of extract_file_info on a drawn text, nothing around it
InitExtract ==
    /\ \E ls \in SeqsUpTo(LineSet, MaxLines) : startsAs(beginExtract(join(ls)))
    /\ docs = << >>
    /\ d = 1
    /\ k = 1
    /\ disk = << >>
    /\ out = << >>
    /\ mpc = "extract_only"
    /\ run = 1
    /\ attempts = << >>
    /\ env = NoEnv
    /\ history = << >>

NextExtract ==
    \/ LoopMarker
    \/ SkipLine
    \/ SkipEnd
    \/ LoopContent
    \/ ExtractReturn

SpecExtract == InitExtract /\ [][NextExtract]_vars

\* the function is sequential and never waits: a step that can be taken is taken
FairExtract == SpecExtract /\ WF_vars(NextExtract)

----------------------------------------------------------------------------
\* process_file and main.

\* line 71: file_path.strip('\'"').strip()
normalizePath(file_path) == strip(stripChars(file_path, QuoteChars))

\* repeated slashes name the same directory entry
RECURSIVE collapseFrom(_, _)
collapseFrom(p, n) ==
    IF n > Len(p) THEN << >>
    ELSE IF p[n] = "/" /\ n < Len(p) /\ p[n + 1] = "/" THEN collapseFrom(p, n + 1)
    ELSE <<p[n]>> \o collapseFrom(p, n + 1)

collapseSlashes(p) == collapseFrom(p, 1)

\* lines 74-80: the file that open(os.path.join(dest_dir, file_path), 'w')
\* creates or truncates, as a location relative to dest_dir
location(file_path) == collapseSlashes(file_path)

\* writeFile that leaves an existing file as it is
writeFileMutKeepOld(tree, loc, text) == tree @@ (loc :> text)

\* writeFile that appends to an existing file
writeFileMutAppend(tree, loc, text) ==
    (loc :> (IF loc \in DOMAIN tree THEN tree[loc] \o text ELSE text)) @@ tree

\* lines 80-81: the tree after content is written at loc, any old content gone
writeFile(tree, loc, text) == (loc :> text) @@ tree

\* the notices printed: line 83, line 105, line 107
createdNotice(doc, file_path) == [kind |-> "created", doc |-> doc, path |-> file_path]
errorNotice(doc) == [kind |-> "error", doc |-> doc, path |-> << >>]
summaryNotice == [kind |-> "summary", doc |-> 0, path |-> << >>]

\* MakeDestDir with the error swallowed
MakeDestDirMutIgnored ==
    /\ mpc = "mkdir"
    /\ mpc' = "walk"
    /\ UNCHANGED <<evars, docs, d, k, disk, out, run, attempts, env, history>>

\* line 96: os.makedirs(dest_dir, exist_ok=True); an error here is not caught
MakeDestDir ==
    /\ mpc = "mkdir"
    /\ mpc' = IF env.destOk THEN "walk" ELSE "crashed"
    /\ UNCHANGED <<evars, docs, d, k, disk, out, run, attempts, env, history>>

\* OpenDocument with a read error that escapes main
OpenDocumentMutUncaught ==
    /\ mpc = "walk"
    /\ d <= Len(docs)
    /\ attempts' = [attempts EXCEPT ![d] = @ + 1]
    /\ IF docs[d].readable
       THEN /\ \E st \in {beginExtract(docs[d].text)} : become(st)
            /\ k' = 1
            /\ mpc' = "process"
       ELSE /\ mpc' = "crashed"
            /\ UNCHANGED <<evars, k>>
    /\ UNCHANGED <<docs, d, out, disk, run, env, history>>

\* lines 99-103 and 64-67: the next document is opened and read, and
\* extract_file_info is entered; lines 104-105 when the read raises
OpenDocument ==
    /\ mpc = "walk"
    /\ d <= Len(docs)
    /\ attempts' = [attempts EXCEPT ![d] = @ + 1]
    /\ IF docs[d].readable
       THEN /\ \E st \in {beginExtract(docs[d].text)} : become(st)
            /\ k' = 1
            /\ mpc' = "process"
            /\ UNCHANGED <<d, out>>
       ELSE /\ out' = Append(out, errorNotice(d))
            /\ d' = d + 1
            /\ UNCHANGED <<evars, k, mpc>>
    /\ UNCHANGED <<docs, disk, run, env, history>>

\* WritePair with a write error that escapes main
WritePairMutUncaught ==
    /\ mpc = "process"
    /\ epc = "done"
    /\ k <= Len(files_data)
    /\ \E file_path \in {normalizePath(files_data[k][1])} :
       \E full_path \in {location(file_path)} :
          IF full_path \in env.unwritable
          THEN /\ mpc' = "crashed"
               /\ UNCHANGED <<k, disk, out>>
          ELSE /\ disk' = writeFile(disk, full_path, files_data[k][2])
               /\ out' = Append(out, createdNotice(d, file_path))
               /\ k' = k + 1
               /\ UNCHANGED mpc
    /\ UNCHANGED <<evars, docs, d, run, attempts, env, history>>

\* WritePair with the write error caught inside the for loop
WritePairMutContinue ==
    /\ mpc = "process"
    /\ epc = "done"
    /\ k <= Len(files_data)
    /\ \E file_path \in {normalizePath(files_data[k][1])} :
       \E full_path \in {location(file_path)} :
          IF full_path \in env.unwritable
          THEN /\ out' = Append(out, errorNotice(d))
               /\ k' = k + 1
               /\ UNCHANGED <<d, mpc, disk>>
          ELSE /\ disk' = writeFile(disk, full_path, files_data[k][2])
               /\ out' = Append(out, createdNotice(d, file_path))
               /\ k' = k + 1
               /\ UNCHANGED <<d, mpc>>
    /\ UNCHANGED <<evars, docs, run, attempts, env, history>>

\* lines 69-83: one iteration of the for loop over files_data;
\* lines 104-105 when makedirs or open raises
WritePair ==
    /\ mpc = "process"
    /\ epc = "done"
    /\ k <= Len(files_data)
    /\ \E file_path \in {normalizePath(files_data[k][1])} :
       \E full_path \in {location(file_path)} :
          IF full_path \in env.unwritable
          THEN /\ out' = Append(out, errorNotice(d))
               /\ d' = d + 1
               /\ mpc' = "walk"
               /\ UNCHANGED <<k, disk>>
          ELSE /\ disk' = writeFile(disk, full_path, files_data[k][2])
               /\ out' = Append(out, createdNotice(d, file_path))
               /\ k' = k + 1
               /\ UNCHANGED <<d, mpc>>
    /\ UNCHANGED <<evars, docs, run, attempts, env, history>>

\* line 69: the for loop is exhausted, process_file returns
ProcessFileReturn ==
    /\ mpc = "process"
    /\ epc = "done"
    /\ k > Len(files_data)
    /\ d' = d + 1
    /\ mpc' = "walk"
    /\ UNCHANGED <<evars, docs, k, disk, out, run, attempts, env, history>>

\* line 107: os.walk is exhausted, the summary is printed and main returns
Summary ==
    /\ mpc = "walk"
    /\ d > Len(docs)
    /\ out' = Append(out, summaryNotice)
    /\ mpc' = "exit"
    /\ history' = Append(history, disk)
    /\ UNCHANGED <<evars, docs, d, k, disk, run, attempts, env>>

\* the program is started again on the same two directories
Rerun ==
    /\ mpc = "exit"
    /\ run < MaxRuns
    /\ run' = run + 1
    /\ mpc' = "mkdir"
    /\ d' = 1
    /\ k' = 1
    /\ out' = << >>
    /\ attempts' = [j \in 1..Len(docs) |-> 0]
    /\ UNCHANGED <<evars, docs, disk, env, history>>

\* The documents of the source directory.  A document that cannot be read or
\* decoded has no text; whether a document can be read and whether a location
\* can be written is a property of the two directories, the same in every run.
text(ls) == [text |-> join(ls), readable |-> TRUE]
Unreadable == [text |-> << >>, readable |-> FALSE]

PATH_A2 == ROOT_APPS \o <<"/", "/", "a", ".", "t">>   \* apps//a.t

Documents ==
    { text(<< <<"/", "/", " ">> \o PATH_A, <<"x">> >>),
      text(<< PATH_A, <<" ", "y", " ">>, <<"#", " ">> \o PATH_B, << >>, <<"x">>,
              PATH_A, <<"z">> >>),
      text(<< PATH_A2, <<"w">> >>),
      text(<< <<"x">>, <<" ", "#", "n">>, << >> >>),
      Unreadable }

OLD == <<"o", "l", "d">>

Init ==
    /\ docs \in SeqsUpTo(Documents, MaxDocs)
    /\ env \in [destOk : BOOLEAN, unwritable : SUBSET {PATH_A, PATH_B}]
    /\ disk \in {<< >>, PATH_A :> OLD}
    /\ content = << >>
    /\ lines = << >>
    /\ i = 0
    /\ current_file = None
    /\ current_content = << >>
    /\ files_data = << >>
    /\ epc = "idle"
    /\ d = 1
    /\ k = 1
    /\ out = << >>
    /\ mpc = "mkdir"
    /\ run = 1
    /\ attempts = [j \in 1..Len(docs) |-> 0]
    /\ history = << >>

ProgramStep ==
    \/ MakeDestDir
    \/ OpenDocument
    \/ LoopMarker
    \/ SkipLine
    \/ SkipEnd
    \/ LoopContent
    \/ ExtractReturn
    \/ WritePair
    \/ ProcessFileReturn
    \/ Summary

Next == ProgramStep \/ Rerun

Spec == Init /\ [][Next]_vars

\* One run on a source directory that holds a single readable document, the
\* document drawn from every text of at most MaxDocLines lines of LineSet.
InitDocument ==
    /\ \E ls \in SeqsUpTo(LineSet, MaxDocLines) : docs = <<text(ls)>>
    /\ env = NoEnv
    /\ disk = << >>
    /\ content = << >>
    /\ lines = << >>
    /\ i = 0
    /\ current_file = None
    /\ current_content = << >>
    /\ files_data = << >>
    /\ epc = "idle"
    /\ d = 1
    /\ k = 1
    /\ out = << >>
    /\ mpc = "mkdir"
    /\ run = 1
    /\ attempts = <<0>>
    /\ history = << >>

SpecDocument == InitDocument /\ [][ProgramStep]_vars

\* Marker paths wrapped in quotes, as they may stand in a document.
quoted(q, path) == <<q>> \o path \o <<q>>

QuotedMarkers ==
    { [line |-> <<"/", "/", " ">> \o quoted("\"", PATH_A), path |-> PATH_A],
      [line |-> quoted("\"", PATH_A), path |-> PATH_A],
      [line |-> <<"#", " ">> \o quoted("'", PATH_B), path |-> PATH_B] }

QuotedLineSet ==
    {m.line : m \in QuotedMarkers}
        \cup { <<"/", "/", " ">> \o PATH_A, PATH_B, <<" ", "y", " ">>, << >> }

\* One run on a source directory that holds a single readable document, the
\* document drawn from every text of at most MaxDocLines lines of
\* QuotedLineSet.
InitQuoted ==
    /\ \E ls \in SeqsUpTo(QuotedLineSet, MaxDocLines) : docs = <<text(ls)>>
    /\ env = NoEnv
    /\ disk = << >>
    /\ content = << >>
    /\ lines = << >>
    /\ i = 0
    /\ current_file = None
    /\ current_content = << >>
    /\ files_data = << >>
    /\ epc = "idle"
    /\ d = 1
    /\ k = 1
    /\ out = << >>
    /\ mpc = "mkdir"
    /\ run = 1
    /\ attempts = <<0>>
    /\ history = << >>

SpecQuoted == InitQuoted /\ [][ProgramStep]_vars

\* Lines with dots, dot-dot segments and a leading slash around a path.
ConfineLineSet ==
    { ROOT_APPS \o <<"/", ".", ".", "/", "a", ".", "t">>,    \* apps/../a.t
      PATH_A \o <<"/", ".", ".", "/", "b">>,                 \* apps/a.t/../b
      <<"/", "/", " ", "/">> \o PATH_A,                      \* // /apps/a.t
      <<"#", " ">> \o PATH_B \o <<".", "d">>,                \* # packages/b.c.d
      <<".", ".", "/">> \o PATH_A,                           \* ../apps/a.t
      <<" ", "y", " ">>,
      << >> }

\* One run on a source directory that holds a single readable document, the
\* document drawn from every text of at most MaxDocLines lines of
\* ConfineLineSet.
InitConfine ==
    /\ \E ls \in SeqsUpTo(ConfineLineSet, MaxDocLines) : docs = <<text(ls)>>
    /\ env = NoEnv
    /\ disk = << >>
    /\ content = << >>
    /\ lines = << >>
    /\ i = 0
    /\ current_file = None
    /\ current_content = << >>
    /\ files_data = << >>
    /\ epc = "idle"
    /\ d = 1
    /\ k = 1
    /\ out = << >>
    /\ mpc = "mkdir"
    /\ run = 1
    /\ attempts = <<0>>
    /\ history = << >>

SpecConfine == InitConfine /\ [][ProgramStep]_vars

\* the program is sequential and never waits: a step that can be taken is taken
FairSpec == Spec /\ WF_vars(ProgramStep)

----------------------------------------------------------------------------
\* What a text contains, read off its lines (used to state the properties).

\* matchMarker and skippable tabulated over the input lines, so that the
\* properties below look a line up instead of matching it again
markerTable == [l \in LineSet |-> matchMarker(l)]

skipTable == [l \in LineSet |-> skippable(l)]

markerOf(line) == IF line \in LineSet THEN markerTable[line] ELSE matchMarker(line)

isSkippable(line) == IF line \in LineSet THEN skipTable[line] ELSE skippable(line)

isMarker(line) == markerOf(line) # None

markerIdx(ls) == {j \in 1..Len(ls) : isMarker(ls[j])}

\* the index of the first marker after line j, or Len(ls) + 1
nextMarker(ls, j) ==
    IF \E m \in markerIdx(ls) : m > j
    THEN CHOOSE m \in markerIdx(ls) : m > j /\ \A n \in markerIdx(ls) : n > j => m <= n
    ELSE Len(ls) + 1

\* the marker indices in line order
RECURSIVE markersFrom(_, _)
markersFrom(ls, j) ==
    IF j > Len(ls) THEN << >>
    ELSE IF isMarker(ls[j]) THEN <<j>> \o markersFrom(ls, j + 1)
    ELSE markersFrom(ls, j + 1)

markerSeq(ls) == markersFrom(ls, 1)

\* the paths of the markers in line order
markerPaths(ls) == [n \in 1..Len(markerSeq(ls)) |-> markerOf(ls[markerSeq(ls)[n]])]

\* a content line: not blank, not a comment line, not a marker
isContentLine(line) == ~isMarker(line) /\ ~isSkippable(line)

RECURSIVE dropSkippable(_)
dropSkippable(ls) ==
    IF ls # << >> /\ isSkippable(Head(ls)) THEN dropSkippable(Tail(ls)) ELSE ls

\* the lines between marker j and the next marker (or the end), without the
\* blank and comment lines that directly follow the marker
blockLines(ls, j) == dropSkippable(SubSeq(ls, j + 1, nextMarker(ls, j) - 1))

\* their newline-join, trimmed
blockContent(ls, j) == strip(join(blockLines(ls, j)))

pairsWithPath(fd, p) == {n \in 1..Len(fd) : fd[n][1] = p}

markersWithPath(ls, p) == {m \in markerIdx(ls) : markerOf(ls[m]) = p}

\* a is a subsequence of b
RECURSIVE isSubseq(_, _)
isSubseq(a, b) ==
    IF a = << >> THEN TRUE
    ELSE IF b = << >> THEN FALSE
    ELSE IF Head(a) = Head(b) THEN isSubseq(Tail(a), Tail(b))
    ELSE isSubseq(a, Tail(b))

emittedPaths == [n \in 1..Len(files_data) |-> files_data[n][1]]

----------------------------------------------------------------------------
\* Properties of extract_file_info (checked under SpecExtract).

\* C1: when two marker lines are adjacent, extract emits no pair for the
\* first marker's path, and the second marker's path is emitted exactly with
\* the content that follows it, or not at all when nothing follows it.
\* (Stated for paths that no other marker of the text carries.)
C1_AdjacentMarkersDropFirst ==
    epc = "done" =>
        \A j \in markerIdx(lines) :
            (j + 1) \in markerIdx(lines) =>
                LET p1 == markerOf(lines[j])
                    p2 == markerOf(lines[j + 1])
                IN  /\ Cardinality(markersWithPath(lines, p1)) = 1 =>
                           pairsWithPath(files_data, p1) = {}
                    /\ Cardinality(markersWithPath(lines, p2)) = 1 =>
                           IF blockContent(lines, j + 1) # << >>
                           THEN \E n \in 1..Len(files_data) :
                                   /\ pairsWithPath(files_data, p2) = {n}
                                   /\ files_data[n][2] = blockContent(lines, j + 1)
                           ELSE pairsWithPath(files_data, p2) = {}

\* C2: a pair is emitted only when the accumulator is non-empty at the
\* moment of emission, so no emitted pair has empty content.
C2_EmitOnlyNonEmpty ==
    [][Len(files_data') > Len(files_data) =>
          (current_content # << >> /\ files_data'[Len(files_data')][2] # << >>)]_vars

\* C3: when every marker is followed by a content line before the next
\* marker or the end of the text, the result has one pair per marker, in
\* marker order, each with the marker's path and the trimmed newline-join of
\* the lines up to the next marker, the lines skipped right after the marker
\* left out.  (A line "begins with // or #" as the code tests it: after
\* trimming.)
everyMarkerHasContent(ls) ==
    \A j \in markerIdx(ls) :
        \E c \in (j + 1)..(nextMarker(ls, j) - 1) : isContentLine(ls[c])

C3_OnePairPerMarker ==
    (epc = "done" /\ everyMarkerHasContent(lines)) =>
        files_data = [n \in 1..Len(markerSeq(lines)) |->
                        <<markerOf(lines[markerSeq(lines)[n]]),
                          blockContent(lines, markerSeq(lines)[n])>>]

C3_Witness ==
    /\ epc = "done"
    /\ everyMarkerHasContent(lines)
    /\ Len(markerSeq(lines)) = 2
    /\ Len(files_data) = 2
    /\ files_data[1][1] # files_data[2][1]

\* C4: a text with a single marker, followed by non-empty content, gives
\* exactly one pair: the marker's path with the trimmed join of the lines
\* after the marker, the blank and comment lines skipped right after the
\* marker left out; the lines before the marker contribute nothing.
C4_SingleMarker ==
    (/\ epc = "done"
     /\ Cardinality(markerIdx(lines)) = 1
     /\ blockContent(lines, markerSeq(lines)[1]) # << >>) =>
        /\ Len(files_data) = 1
        /\ files_data[1][1] = markerOf(lines[markerSeq(lines)[1]])
        /\ files_data[1][2] = blockContent(lines, markerSeq(lines)[1])

C4_Witness ==
    /\ epc = "done"
    /\ Len(lines) = 4
    /\ markerSeq(lines) = <<2>>
    /\ isContentLine(lines[1])
    /\ isSkippable(lines[3])
    /\ Len(files_data) = 1
    /\ files_data[1][2] = strip(lines[4])

\* C6: the emitted paths, in order, are a subsequence of the marker paths in
\* line order; nothing is de-duplicated, so a path may be emitted twice.
C6_ExtractionOrder ==
    /\ isSubseq(emittedPaths, markerPaths(SubSeq(lines, 1, i)))
    /\ epc = "done" => isSubseq(emittedPaths, markerPaths(lines))

C6_Witness ==
    /\ epc = "done"
    /\ Len(files_data) = 2
    /\ files_data[1][1] = files_data[2][1]
    /\ files_data[1][2] # << >> /\ files_data[2][2] # << >>

\* C13: the call is in one of two states, NO_FILE (current_file is None) and
\* COLLECTING (current_file is a path): it starts in NO_FILE, leaves NO_FILE
\* only at a marker line, taking that marker's path, and once COLLECTING it
\* is never in NO_FILE again, whatever lines follow.
NO_FILE == current_file = None

COLLECTING == current_file # None /\ current_file = markerOf(current_file)

C13_TwoStates ==
    /\ []((NO_FILE \/ COLLECTING) /\ ~(NO_FILE /\ COLLECTING))
    /\ [](i = 0 => NO_FILE)
    /\ [][(NO_FILE /\ ~NO_FILE') =>
            /\ i < Len(lines)
            /\ isMarker(lines[i + 1])
            /\ current_file' = markerOf(lines[i + 1])]_vars
    /\ [][COLLECTING => COLLECTING']_vars

C13_Witness ==
    /\ epc = "done"
    /\ Len(lines) = 4
    /\ isContentLine(lines[1])
    /\ isMarker(lines[2])
    /\ strip(lines[3]) = << >>
    /\ isContentLine(lines[4])
    /\ COLLECTING
    /\ current_file = markerOf(lines[2])

\* C14: at a line that is tested and matches no pattern: with no path open
\* the line is discarded, the path, the accumulator and the pairs staying as
\* they are, so that the lines before the first marker change nothing in the
\* result; with a path open the raw line is appended to the accumulator, the
\* path and the pairs staying as they are.
fromFirstMarker(ls) ==
    IF markerIdx(ls) = {} THEN << >>
    ELSE SubSeq(ls, markerSeq(ls)[1], Len(ls))

C14_NonMatchingLine ==
    /\ [][(epc = "loop" /\ i < Len(lines) /\ ~isMarker(lines[i + 1])) =>
            /\ i' = i + 1
            /\ current_file' = current_file
            /\ files_data' = files_data
            /\ current_content' =
                   IF NO_FILE THEN current_content
                   ELSE Append(current_content, lines[i + 1])]_vars
    /\ [](NO_FILE => current_content = << >> /\ files_data = << >>)
    /\ [](epc = "done" =>
            files_data = IF markerIdx(lines) = {} THEN << >>
                         ELSE extract_file_info(join(fromFirstMarker(lines))))

C14_Witness ==
    /\ epc = "done"
    /\ Len(lines) = 4
    /\ isContentLine(lines[1])
    /\ isMarker(lines[2])
    /\ lines[3] = <<" ", "y", " ">>
    /\ current_content = <<lines[3], lines[4]>>
    /\ Len(files_data) = 1

\* C16: a line is a marker exactly when it has one of two shapes, tested in
\* this order: the trimmed line begins with a comment token, a blank and an
\* allow-listed path; or the line itself begins with such a path.  Any other
\* line, a bare path behind leading whitespace among them, is no marker.
shapeCommentPrefixed(line) == matchCommentPrefixed(strip(line))

shapeBare(line) == matchBare(line)

shapeOf(line) ==
    IF shapeCommentPrefixed(line) # None THEN shapeCommentPrefixed(line)
    ELSE shapeBare(line)

C16_MarkerShapes ==
    /\ \A j \in 1..i : matchMarker(lines[j]) = shapeOf(lines[j])
    /\ epc = "skip" => (shapeOf(lines[i]) # None /\ current_file = shapeOf(lines[i]))

\* C17: a comment-prefixed marker that follows another marker with only blank
\* lines and lines beginning with // or # in between is passed over by the
\* skip loop: it is not tested, does not become the open path and gives no
\* pair, and the content after it goes to the earlier marker's pair.  A bare
\* marker in that place ends the skip loop and opens its path.
swallowed(ls, j) ==
    /\ isMarker(ls[j])
    /\ isSkippable(ls[j])
    /\ \E m \in 1..(j - 1) :
          isMarker(ls[m]) /\ \A n \in (m + 1)..(j - 1) : isSkippable(ls[n])

\* the markers that are not passed over, in line order
RECURSIVE effectiveFrom(_, _)
effectiveFrom(ls, j) ==
    IF j > Len(ls) THEN << >>
    ELSE IF isMarker(ls[j]) /\ ~swallowed(ls, j) THEN <<j>> \o effectiveFrom(ls, j + 1)
    ELSE effectiveFrom(ls, j + 1)

\* the lines accumulated under the n-th of the markers es
effectiveBlock(ls, es, n) ==
    dropSkippable(SubSeq(ls, es[n] + 1,
                         IF n < Len(es) THEN es[n + 1] - 1 ELSE Len(ls)))

\* one pair per marker that is not passed over, the last one only when
\* lines were accumulated under it
effectivePairs(ls) ==
    LET es == effectiveFrom(ls, 1)
        all == [n \in 1..Len(es) |->
                  <<markerOf(ls[es[n]]), strip(join(effectiveBlock(ls, es, n)))>>]
    IN  IF es # << >> /\ effectiveBlock(ls, es, Len(es)) = << >>
        THEN SubSeq(all, 1, Len(es) - 1)
        ELSE all

C17_SkipSwallowsCommentMarkers ==
    /\ [][(i < Len(lines) /\ swallowed(lines, i + 1)) =>
            /\ epc = "skip"
            /\ epc' = "skip"
            /\ i' = i + 1
            /\ UNCHANGED <<current_file, current_content, files_data>>]_vars
    /\ [][(epc = "skip" /\ i < Len(lines)
             /\ isMarker(lines[i + 1]) /\ ~isSkippable(lines[i + 1])) =>
            (epc' = "loop" /\ i' = i)]_vars
    /\ [][(epc = "loop" /\ i < Len(lines) /\ isMarker(lines[i + 1])) =>
            current_file' = markerOf(lines[i + 1])]_vars
    /\ [](epc = "done" => files_data = effectivePairs(lines))

C17_Witness ==
    /\ epc = "done"
    /\ Len(lines) = 4
    /\ isMarker(lines[1])
    /\ strip(lines[2]) = << >>
    /\ swallowed(lines, 3)
    /\ markerOf(lines[3]) # markerOf(lines[1])
    /\ isContentLine(lines[4])
    /\ files_data = << <<markerOf(lines[1]), strip(lines[4])>> >>

\* C19: the call returns for every text: each iteration of the main loop and
\* of the skip loop moves the cursor forward by one line, the cursor never
\* passes the number of lines, and each line is consumed once, as exactly
\* one of a marker, a skipped line, an accumulated line, a discarded line.
asMarker ==
    /\ epc = "loop" /\ epc' = "skip"
    /\ isMarker(lines[i + 1])
    /\ current_file' = markerOf(lines[i + 1])
    /\ current_content' = << >>

asSkipped ==
    /\ epc = "skip" /\ epc' = "skip"
    /\ isSkippable(lines[i + 1])
    /\ UNCHANGED <<current_file, current_content, files_data>>

asAccumulated ==
    /\ epc = "loop" /\ epc' = "loop"
    /\ COLLECTING
    /\ current_content' = Append(current_content, lines[i + 1])
    /\ UNCHANGED <<current_file, files_data>>

asDiscarded ==
    /\ epc = "loop" /\ epc' = "loop"
    /\ NO_FILE
    /\ UNCHANGED <<current_file, current_content, files_data>>

exactlyOne(a, b, c, e) ==
    Cardinality({n \in 1..4 : <<a, b, c, e>>[n]}) = 1

\* an iteration of one of the two loops starts in this state
inIteration ==
    \/ epc = "loop" /\ i < Len(lines)
    \/ epc = "skip" /\ i < Len(lines) /\ isSkippable(lines[i + 1])

C19_ExtractTerminates ==
    /\ <>(epc = "done")
    /\ [](i >= 0 /\ i <= Len(lines))
    /\ [](epc = "done" => i = Len(lines))
    /\ [][inIteration => i' = i + 1]_vars
    /\ [][i' # i =>
            /\ i' = i + 1
            /\ exactlyOne(asMarker, asSkipped, asAccumulated, asDiscarded)]_vars
    /\ [][i' = i => (~inIteration /\ UNCHANGED <<current_file, current_content>>)]_vars

C19_Witness ==
    /\ epc = "done"
    /\ i = 4
    /\ Len(lines) = 4
    /\ isContentLine(lines[1])
    /\ isMarker(lines[2])
    /\ swallowed(lines, 3)
    /\ current_content = <<lines[4]>>

----------------------------------------------------------------------------
\* Properties of the organizer (checked under Spec and FairSpec).

noticesOf(j, kind) == {n \in 1..Len(out) : out[n].kind = kind /\ out[n].doc = j}

\* the pairs a document yields; none when it cannot be read
pairsOf(doc) == IF doc.readable THEN extract_file_info(doc.text) ELSE << >>

fileOf(pair) == location(normalizePath(pair[1]))

\* the document raises: it cannot be read, or one of its files cannot be written
writeFails(doc) ==
    \E ps \in {pairsOf(doc)} : \E n \in 1..Len(ps) : fileOf(ps[n]) \in env.unwritable

docFails(doc) == ~doc.readable \/ writeFails(doc)

\* the pairs of all documents, in processing order
RECURSIVE pairsFrom(_)
pairsFrom(j) ==
    IF j > Len(docs) THEN << >> ELSE pairsOf(docs[j]) \o pairsFrom(j + 1)

allPairs == pairsFrom(1)

Max(S) == CHOOSE m \in S : \A n \in S : n <= m

\* C5: a text without marker lines gives no pair, and a document without
\* marker lines leaves the destination tree as it was and causes no
\* "Created file" and no "Error processing" notice.
noMarkers(doc) == doc.readable /\ markerIdx(split(doc.text)) = {}

C5_NoMarkerNoOutput ==
    /\ [](epc = "done" /\ markerIdx(lines) = {} => files_data = << >>)
    /\ [](\A j \in 1..Len(docs) :
            noMarkers(docs[j]) =>
                noticesOf(j, "created") = {} /\ noticesOf(j, "error") = {})
    /\ [][(d <= Len(docs) /\ noMarkers(docs[d])) => disk' = disk]_vars

C5_Witness ==
    /\ mpc = "exit"
    /\ noMarkers(docs[1])
    /\ Len(lines) = 3
    /\ \E n \in 1..3 : isContentLine(lines[n])
    /\ out = <<summaryNotice>>
    /\ disk = << >>

\* C7: every document is attempted exactly once, whichever documents raise;
\* a document that raises is reported once, under its own path, and the
\* documents after it are processed all the same; the run is never aborted
\* by a document.
C7_FailureIsolation ==
    /\ \A j \in 1..Len(docs) :
          attempts[j] = IF j < d \/ (j = d /\ mpc = "process") THEN 1 ELSE 0
    /\ mpc \in {"walk", "exit"} =>
          \A j \in 1..Len(docs) :
              j < d =>
                  /\ Cardinality(noticesOf(j, "error")) = IF docFails(docs[j]) THEN 1 ELSE 0
                  /\ ~docFails(docs[j]) =>
                         Cardinality(noticesOf(j, "created")) = Len(pairsOf(docs[j]))
    /\ mpc = "exit" => d = Len(docs) + 1
    /\ mpc = "crashed" => (~env.destOk /\ d = 1)

C7_Witness ==
    /\ mpc = "exit"
    /\ Len(docs) = 2
    /\ ~docs[1].readable
    /\ ~docFails(docs[2])
    /\ Cardinality(noticesOf(1, "error")) = 1
    /\ noticesOf(2, "created") # {}

\* C8 as claimed: after a run in which no write fails, the file at each
\* emitted path P holds the content of the last pair whose path is P.
noWriteFails == \A j \in 1..Len(docs) : ~writeFails(docs[j])

C8_LastPairWithPathWins ==
    (mpc = "exit" /\ noWriteFails) =>
        \A ap \in {allPairs} : \A n \in 1..Len(ap) :
            LET P == normalizePath(ap[n][1])
                last == Max({m \in 1..Len(ap) : normalizePath(ap[m][1]) = P})
            IN  /\ location(P) \in DOMAIN disk
                /\ disk[location(P)] = ap[last][2]

\* C8 as amended: after a run in which no write fails, each written file
\* holds the content of the last pair, in processing order, whose path names
\* that file (two paths that differ in repeated slashes name the same file).
C8_LastWriteWins ==
    (mpc = "exit" /\ noWriteFails) =>
        \A ap \in {allPairs} : \A n \in 1..Len(ap) :
            LET last == Max({m \in 1..Len(ap) : fileOf(ap[m]) = fileOf(ap[n])})
            IN  /\ fileOf(ap[n]) \in DOMAIN disk
                /\ disk[fileOf(ap[n])] = ap[last][2]

C8_Witness ==
    /\ mpc = "exit"
    /\ noWriteFails
    /\ Len(docs) = 2
    /\ Len(pairsOf(docs[1])) = 1
    /\ Len(pairsOf(docs[2])) = 3
    /\ \A n \in {1, 2, 4} : allPairs[n][1] = allPairs[1][1]
    /\ allPairs[1][2] # allPairs[4][2]
    /\ allPairs[2][2] # allPairs[4][2]
    /\ disk[fileOf(allPairs[1])] = allPairs[4][2]

\* C9: a run on the same two directories as the run before it leaves the
\* destination tree exactly as that run left it.
C9_Idempotent ==
    \A r \in 2..Len(history) : history[r] = history[r - 1]

C9_Witness ==
    /\ Len(history) = 2
    /\ Cardinality(DOMAIN history[2]) = 2
    /\ \E j \in 1..Len(docs) : noticesOf(j, "error") # {}

\* C10: once the destination directory exists the run completes: the
\* summary is printed, exactly once, after every document was attempted.
summaries == {n \in 1..Len(out) : out[n].kind = "summary"}

C10_RunCompletes ==
    /\ (mpc = "walk") ~> (mpc = "exit")
    /\ [](Cardinality(summaries) = IF mpc = "exit" THEN 1 ELSE 0)
    /\ [](mpc = "exit" =>
            /\ out[Len(out)] = summaryNotice
            /\ \A j \in 1..Len(docs) : attempts[j] = 1)

C10_Witness ==
    /\ mpc = "exit"
    /\ Len(docs) = 2
    /\ docFails(docs[1]) /\ docFails(docs[2])
    /\ docs[1].readable
    /\ summaries = {Len(out)}

\* C11: when the destination root cannot be created the run ends at once in
\* failure: it reaches the failed state, where nothing more happens; no
\* document is opened, nothing is extracted, no file is written, nothing is
\* printed, and in particular no summary.
C11_FatalSetupError ==
    /\ (mpc = "mkdir" /\ ~env.destOk) ~> (mpc = "crashed")
    /\ [](~env.destOk =>
            /\ mpc \in {"mkdir", "crashed"}
            /\ \A j \in 1..Len(docs) : attempts[j] = 0
            /\ epc = "idle"
            /\ out = << >>
            /\ history = << >>)
    /\ [][~env.destOk => disk' = disk]_vars
    /\ [][mpc # "crashed"]_vars

C11_Witness ==
    /\ mpc = "crashed"
    /\ ~env.destOk
    /\ Len(docs) = 2
    /\ \A j \in 1..2 : docs[j].readable /\ pairsOf(docs[j]) # << >>
    /\ env.unwritable = {}
    /\ disk # << >>

\* C12: a marker line whose path is wrapped in single or double quotes is
\* recognized as a marker, and when content follows it the run leaves an
\* output file at the path with the quotes stripped.
C12_QuotedPathNormalized ==
    \A m \in QuotedMarkers :
        \A j \in 1..Len(lines) :
            lines[j] = m.line =>
                /\ matchMarker(lines[j]) # None
                /\ (mpc = "exit" /\ j < Len(lines) /\ lines[j + 1] = <<" ", "y", " ">>) =>
                       /\ location(m.path) \in DOMAIN disk
                       /\ \E n \in 1..Len(out) :
                              out[n].kind = "created" /\ out[n].path = m.path

\* C15: when the write of the k-th pair of a document fails, the tree stays
\* as the pairs before it and the earlier documents left it, the document is
\* reported once and left, so that its pairs before the k-th are written,
\* those from the k-th on are not, and the next document is processed.
Min(S) == CHOOSE m \in S : \A n \in S : m <= n

\* the index of the first pair of ps whose write fails
firstFail(ps) == Min({n \in 1..Len(ps) : fileOf(ps[n]) \in env.unwritable})

writeFailsNow ==
    /\ mpc = "process"
    /\ epc = "done"
    /\ k <= Len(files_data)
    /\ fileOf(files_data[k]) \in env.unwritable

dots(p) == {n \in 1..Len(p) : p[n] = "."}

slashes(p) == {n \in 1..Len(p) : p[n] = "/"}

confined(p) ==
    /\ p # << >>
    /\ p[1] # "/"
    /\ startswith(p, ROOT_APPS \o <<"/">>) \/ startswith(p, ROOT_PACKAGES \o <<"/">>)
    /\ Cardinality(dots(p)) = 1
    /\ \A n \in dots(p) : n < Len(p) /\ \A m \in slashes(p) : m < n
    /\ \A n \in 1..Len(p) : p[n] \notin QuoteChars \cup Whitespace

C18_OutputConfined ==
    /\ [](\A n \in 1..Len(files_data) :
            /\ confined(normalizePath(files_data[n][1]))
            /\ normalizePath(files_data[n][1]) = files_data[n][1])
    /\ [](\A n \in 1..Len(out) : out[n].kind = "created" => confined(out[n].path))
    /\ [][\A loc \in DOMAIN disk' :
            (loc \notin DOMAIN disk \/ disk'[loc] # disk[loc]) => confined(loc)]_vars

C18_Witness ==
    /\ mpc = "exit"
    /\ Len(lines) = 3
    /\ lines[1] = PATH_A \o <<"/", ".", ".", "/", "b">>
    /\ lines[2] = <<".", ".", "/">> \o PATH_A
    /\ lines[3] = <<"#", " ">> \o PATH_B \o <<".", "d">>
    /\ files_data = << <<PATH_A, lines[2]>> >>
    /\ current_file = PATH_B
    /\ DOMAIN disk = {PATH_A}

====
